---- MODULE Spec2Model ----
\* Metadata synchronisation pipeline of Auralytics:
\*   enhanced-schema-sync handler   (src/unnamed/part_007)
\*   schema-sync handler            (src/netlify/functions/schema-sync.js)
\*   relational store               (src/scripts/setup-supabase.sql)
\* Every await of the JavaScript code is one atomic step of an invocation;
\* invocations interleave at these steps.
EXTENDS Naturals, Sequences, FiniteSets, TLC

\* ---------------------------------------------------------------- bounds
MaxInv == 2        \* invocations started in one behaviour
MaxActive == 2     \* invocations in flight at the same time
MaxFaults == 1     \* injected failures (gateway, generative service, store)
MaxSends == 2      \* messages sent from the chat page in one behaviour

Procs == 1..MaxInv

\* ---------------------------------------------------------------- values
NULL == "<null>"            \* JavaScript null / SQL NULL
UNDEF == "<undefined>"      \* JavaScript undefined (key dropped by JSON.stringify)

\* String.prototype.trim on the strings that occur in the model
Trim(s) ==
  CASE s = " " -> ""
    [] s = " def B " -> "def B"
    [] OTHER -> s

\* `x || null`
OrNull(x) == IF x = "" \/ x = UNDEF THEN NULL ELSE x

\* `Column ${columnName} of type ${columnType}`
FallbackDefinition(columnName, columnType) ==
  "Column " \o columnName \o " of type " \o columnType

\* text the generative service answers with (before .trim())
GenTexts == {" def B "}

\* ---------------------------------------------------------------- registry and remote sources
\* rows of data_source_connections present before any invocation
InitConnections ==
  { [id |-> "c1", type |-> "mysql",      database |-> "shop"],
    [id |-> "c2", type |-> "postgresql", database |-> "shop"],
    [id |-> "c3", type |-> "oracle",     database |-> "orcl"] }

\* a registered server that holds the same table in two of its databases
TwoDatabaseConnection == [id |-> "c4", type |-> "mysql", database |-> "shop"]

\* the (unchanging) remote catalogue behind each connection, as the gateway
\* reports it: SHOW DATABASES
RemoteDatabases(src) ==
  CASE src \in {"c1", "c2"} -> <<"shop">>
    [] src = "c4" -> <<"shop", "crm">>
    [] OTHER      -> <<"orcl">>

\* SHOW TABLES FROM <database>
RemoteTables(src, db) ==
  CASE src \in {"c1", "c2"} /\ db = "shop" -> <<"orders">>
    [] src = "c4" /\ db \in {"shop", "crm"} -> <<"orders">>
    [] src = "c3" /\ db = "orcl" -> <<"emp">>
    [] OTHER -> <<>>

\* rows of the describe query: <<name, type, is_nullable, default, comment>>
RemoteColumns(src, db, table) ==
  CASE src = "c1" /\ db = "shop" /\ table = "orders" ->
         << <<"id", "int", "NO", "", "">>,
            <<"status", "varchar", "YES", "", "order status">> >>
    [] src = "c2" /\ db = "shop" /\ table = "orders" ->
         << <<"id", "int", "NO", "", " ">> >>
    [] src = "c4" /\ db = "shop" /\ table = "orders" ->
         << <<"id", "int", "NO", "", "">>,
            <<"qty", "int", "YES", "", "">> >>
    [] src = "c4" /\ db = "crm" /\ table = "orders" ->
         << <<"id", "int", "NO", "", "">> >>
    [] OTHER -> <<>>

\* ---------------------------------------------------------------- state
VARIABLES
  connections,   \* data_source_connections
  schemas,       \* data_source_schemas
  objects,       \* data_source_objects
  fields,        \* data_source_fields
  history,       \* field_semantics_history
  cache,         \* ai_analysis_cache
  jobs,          \* metadata_extraction_jobs
  syncHistory,   \* data_source_sync_history
  queryHistory,  \* query_history
  geminiKey,     \* process.env.GEMINI_API_KEY is set
  chat,          \* the chat page: state of the ChatInterface component
  inv,           \* the invocations: locals and position of each
  faults         \* failures injected so far

storeVars == <<connections, schemas, objects, fields, history, cache, jobs, syncHistory>>
vars == <<connections, schemas, objects, fields, history, cache, jobs, syncHistory,
          queryHistory, geminiKey, chat, inv, faults>>

Idle ==
  [kind |-> "none", pc |-> "idle", method |-> "", body |-> "absent", connectionId |-> "",
   conn |-> [id |-> "", type |-> "", database |-> ""], connRecId |-> "",
   aiAnalysisEnabled |-> TRUE, jobId |-> 0,
   dbs |-> <<>>, di |-> 0, tables |-> <<>>, ti |-> 0, cols |-> <<>>, ci |-> 0,
   metadata |-> <<>>, rows |-> <<>>, si |-> 0, oi |-> 0, fi |-> 0,
   schemaId |-> 0, objectId |-> 0,
   error |-> "", statusCode |-> 0, success |-> FALSE, resolves |-> 0,
   calls |-> 0, pending |-> 0, failedAt |-> 0, storeFailed |-> FALSE,
   extracted |-> [databases |-> 0, tables |-> 0, columns |-> 0], jobUpdate |-> "none",
   logged |-> FALSE,
   genReqs |-> <<>>, delays |-> 0, faulted |-> FALSE, inserted |-> 0, hist |-> 0,
   prior |-> FALSE]

\* useState(...) of ChatInterface: the greeting, an empty input, not loading
ChatInit ==
  [messages |-> <<"greeting">>, inputText |-> "", isLoading |-> FALSE,
   pc |-> "idle", ok |-> FALSE, sends |-> 0]

\* the state before any invocation, with registry C
InitWith(C) ==
  /\ connections = C
  /\ schemas = {}
  /\ objects = {}
  /\ fields = {}
  /\ history = {}
  /\ cache = {}
  /\ jobs = {}
  /\ syncHistory = {}
  /\ queryHistory = {}
  /\ geminiKey \in BOOLEAN
  /\ chat = ChatInit
  /\ inv = [p \in Procs |-> Idle]
  /\ faults = 0

Init == InitWith(InitConnections)

InitTwoDatabases == InitWith(InitConnections \cup {TwoDatabaseConnection})

Active == {p \in Procs : inv[p].pc \notin {"idle", "done"}}
CanFail == faults < MaxFaults

\* ---------------------------------------------------------------- the store
\* columns of public.data_source_fields
DataSourceFieldsColumns ==
  {"id", "object_id", "name", "data_type", "is_nullable", "default_type",
   "default_expression", "comment", "codec_expression", "ttl_expression",
   "description", "ai_description", "business_definition", "data_quality_score",
   "is_primary_key", "is_indexed", "sample_values", "metadata", "created_at",
   "updated_at"}

\* keys of the field payload built by storeComprehensiveMetadata
EnhancedFieldKeys ==
  {"object_id", "name", "data_type", "is_nullable", "default_type",
   "default_expression", "comment", "codec_expression", "ttl_expression",
   "description", "ai_description", "business_definition", "metadata"}

\* keys of the field payload built by storeSchemaData
SchemaSyncFieldKeys == {"object_id", "name", "data_type", "default_value", "metadata"}

\* the store rejects a payload that names a column the table does not have
PayloadAccepted(keys) == keys \subseteq DataSourceFieldsColumns

FreshId(T) == Cardinality(T) + 1

\* .upsert(row, { onConflict: 'connection_id,name' }) on data_source_schemas
InsertSchema(S, cid, name) ==
  S \cup {[id |-> FreshId(S), connection_id |-> cid, name |-> name]}

UpsertSchema(S, cid, name) ==
  IF \E s \in S : s.connection_id = cid /\ s.name = name
    THEN S
    ELSE S \cup {[id |-> FreshId(S), connection_id |-> cid, name |-> name]}

SchemaIdByName(S, cid, name) ==
  (CHOOSE s \in S : s.name = name).id

\* id of the row the schema upsert returns (.select().single())
SchemaIdOf(S, cid, name) ==
  (CHOOSE s \in S : s.connection_id = cid /\ s.name = name).id

\* .upsert(row, { onConflict: 'schema_id,name' }) on data_source_objects
InsertObject(O, sid, name) ==
  O \cup {[id |-> FreshId(O), schema_id |-> sid, name |-> name]}

UpsertObject(O, sid, name) ==
  IF \E o \in O : o.schema_id = sid /\ o.name = name
    THEN O
    ELSE O \cup {[id |-> FreshId(O), schema_id |-> sid, name |-> name]}

ObjectIdByName(O, sid, name) ==
  (CHOOSE o \in O : o.name = name).id

\* id of the row the object upsert returns (.select().single())
ObjectIdOf(O, sid, name) ==
  (CHOOSE o \in O : o.schema_id = sid /\ o.name = name).id

\* a column the payload leaves out keeps its value on conflict and takes the
\* column default (NULL) on insert
Merged(new, old) == IF new = UNDEF THEN old ELSE new

\* .upsert(row, { onConflict: 'object_id,name' }) on data_source_fields
UpsertField(F, row) ==
  IF \E f \in F : f.object_id = row.object_id /\ f.name = row.name
    THEN LET old == CHOOSE f \in F : f.object_id = row.object_id /\ f.name = row.name
         IN (F \ {old}) \cup
            {[id |-> old.id, object_id |-> old.object_id, name |-> old.name,
              data_type |-> row.data_type,
              comment |-> Merged(row.comment, old.comment),
              description |-> Merged(row.description, old.description),
              ai_description |-> Merged(row.ai_description, old.ai_description),
              business_definition |->
                Merged(row.business_definition, old.business_definition)]}
    ELSE F \cup {[id |-> FreshId(F), object_id |-> row.object_id, name |-> row.name,
                  data_type |-> row.data_type,
                  comment |-> Merged(row.comment, NULL),
                  description |-> Merged(row.description, NULL),
                  ai_description |-> Merged(row.ai_description, NULL),
                  business_definition |-> Merged(row.business_definition, NULL)]}

\* status a job row is inserted with
JobPending == "pending"
JobInitialStatus == "running"

\* the invocation is over: its locals are released
Finished(r) ==
  [r EXCEPT !.pc = "done", !.conn = Idle.conn, !.dbs = <<>>, !.di = 0, !.tables = <<>>,
            !.ti = 0, !.cols = <<>>, !.ci = 0, !.metadata = <<>>, !.rows = <<>>,
            !.si = 0, !.oi = 0, !.fi = 0, !.schemaId = 0, !.objectId = 0]

\* respond: resolve({ statusCode, body })
Respond(r, code, ok, err) ==
  Finished([r EXCEPT !.statusCode = code, !.success = ok, !.error = err,
                     !.resolves = @ + 1])

\* the callback ends by an exception that nothing catches: resolve is not called
Abandon(r, err) == Finished([r EXCEPT !.error = err])

\* storeComprehensiveMetadata returns without throwing
Returned(r) == Finished([r EXCEPT !.success = TRUE])

\* ---------------------------------------------------------------- requests
Methods == {"POST", "GET"}

\* connectionId of a request body: a registered id or c9, which is none;
\* the body of a request that is not a POST is never read
RequestIds(m) ==
  IF m = "POST" THEN {c.id : c \in connections} \cup {"c9"} ELSE {""}

\* the connection object a client sends along with connectionId
BodyConnection(cid) ==
  IF \E c \in connections : c.id = cid
    THEN CHOOSE c \in connections : c.id = cid
    ELSE [id |-> cid, type |-> "mysql", database |-> "shop"]

\* an earlier invocation of the same kind for the same connection has run to
\* its end without any failure
CleanDone(q, kind, cid) ==
  /\ inv[q].kind = kind
  /\ inv[q].pc = "done"
  /\ inv[q].connRecId = cid
  /\ ~inv[q].faulted
  /\ inv[q].success

\* a request of the given kind may arrive: invocations of one kind overlap
\* freely, invocations of different kinds follow one another
MayStart(p, kind) ==
  /\ inv[p].pc = "idle"
  /\ \A q \in Procs : q < p => inv[q].pc # "idle"
  /\ Cardinality(Active) < MaxActive
  /\ \A q \in Active : inv[q].kind = kind

\* event.body: a JSON object, no body at all, or text that JSON.parse rejects
BodyShapes == {"json", "absent", "invalid"}

\* what a request can carry: <<shape of the body, connectionId, aiAnalysisEnabled>>;
\* a JSON body may lack connectionId and connection ({})
AnyBodies(m) ==
  IF m = "POST"
    THEN {<<"json", cid, f>> : cid \in RequestIds(m) \cup {UNDEF}, f \in BOOLEAN}
         \cup {<<"absent", "", TRUE>>, <<"invalid", "", TRUE>>}
    ELSE {<<"absent", "", TRUE>>}

\* the bodies of a client that names a connection and sends the registered
\* connection along, annotation on
ClientBodies(m) ==
  {<<IF m = "POST" THEN "json" ELSE "absent", cid, TRUE>> : cid \in RequestIds(m)}

\* the invocation of enhanced-schema-sync for a request
EnhancedRequest(m, b) ==
  [Idle EXCEPT !.kind = "enhanced", !.pc = "recv", !.method = m, !.body = b[1],
               !.connectionId = b[2],
               !.conn = IF b[1] = "json" /\ b[2] # UNDEF THEN BodyConnection(b[2])
                        ELSE Idle.conn,
               !.aiAnalysisEnabled = b[3]]

\* a POST /.netlify/functions/enhanced-schema-sync arrives
StartEnhanced(p) ==
  /\ MayStart(p, "enhanced")
  /\ \E m \in Methods : \E b \in ClientBodies(m) :
       inv' = [inv EXCEPT ![p] = EnhancedRequest(m, b)]
  /\ UNCHANGED <<storeVars, geminiKey, chat, queryHistory, faults>>

\* a POST /.netlify/functions/schema-sync arrives
StartSchemaSync(p) ==
  /\ MayStart(p, "schema")
  /\ \E m \in Methods : \E b \in ClientBodies(m) :
       inv' = [inv EXCEPT ![p] =
                 [Idle EXCEPT !.kind = "schema", !.pc = "recv", !.method = m,
                              !.body = b[1], !.connectionId = b[2]]]
  /\ UNCHANGED <<storeVars, geminiKey, chat, queryHistory, faults>>

ValidateAnyId(r, C) ==
  IF r.method # "POST" THEN 405
  ELSE IF r.body # "json" THEN 500
  ELSE IF r.conn = Idle.conn THEN 400
  ELSE 0

\* the checks of the handler before it writes anything: the status it answers
\* with, or 0 when the request passes (connectionId 'new' or a registered id)
Validate(r, C) ==
  IF r.method # "POST" THEN 405
  ELSE IF r.body # "json" THEN 500
  ELSE IF r.conn = Idle.conn THEN 400
  ELSE IF r.connectionId = "new" THEN 0
  ELSE IF \E c \in C : c.id = r.connectionId THEN 0
  ELSE 404

\* the error text that goes with a status
ErrorText(code) ==
  CASE code = 405 -> "Method not allowed"
    [] code = 400 -> "Connection details are required"
    [] code = 404 -> "Connection not found"
    [] OTHER      -> "Internal server error"

\* enhanced-schema-sync: method check, body, connection lookup
E_Resolve(p) ==
  /\ inv[p].kind = "enhanced" /\ inv[p].pc = "recv"
  /\ LET r    == inv[p]
         code == Validate(r, connections)
     IN inv' = [inv EXCEPT ![p] =
          IF code # 0 THEN Respond(r, code, FALSE, ErrorText(code))
          ELSE IF r.connectionId = "new" THEN [r EXCEPT !.pc = "createConnection"]
          ELSE [r EXCEPT !.pc = "createJob", !.connRecId = r.connectionId,
                         !.prior = \E q \in Procs : CleanDone(q, "enhanced", r.connectionId)]]
  /\ UNCHANGED <<storeVars, geminiKey, chat, queryHistory, faults>>

\* ids the store gives to new rows of data_source_connections
NewConnectionIds == <<"n1", "n2", "n3", "n4", "n5", "n6">>

\* .insert({name, type, description, connection_config, ...}).select().single()
\* on data_source_connections: a new row whatever rows there are
InsertConnection(C, conn) ==
  C \cup {[id |-> NewConnectionIds[Cardinality(C) + 1],
           type |-> conn.type, database |-> conn.database]}

\* connectionId === 'new': the connection of the body is inserted; an insert
\* error is answered with 500
E_CreateConnection(p) ==
  /\ inv[p].kind = "enhanced" /\ inv[p].pc = "createConnection"
  /\ LET r == inv[p]
     IN \/ /\ connections' = InsertConnection(connections, r.conn)
           /\ inv' = [inv EXCEPT ![p] =
                        [r EXCEPT !.pc = "createJob",
                                  !.connRecId = NewConnectionIds[Cardinality(connections) + 1]]]
           /\ UNCHANGED faults
        \/ /\ CanFail
           /\ faults' = faults + 1
           /\ inv' = [inv EXCEPT ![p] =
                        Respond([r EXCEPT !.faulted = TRUE], 500, FALSE,
                                "Failed to create connection")]
           /\ UNCHANGED connections
  /\ UNCHANGED <<schemas, objects, fields, history, cache, jobs, syncHistory, geminiKey, chat,
                 queryHistory>>

\* ---------------------------------------------------------------- remote calls
\* dialects getTableStructure has a describe query for
StructureDialects == {"clickhouse", "mysql", "postgresql"}

\* the awaited functions that post a query to the gateway
GatewayCalls == {"getDatabases", "getTables", "getTableStructure"}

\* the invocation posts a request when it enters `call`: getTableStructure
\* throws before its request when the type has no describe query
Posts(r, call) ==
  \/ call \in {"getDatabases", "getTables", "generate"}
  \/ call = "getTableStructure" /\ r.conn.type \in StructureDialects

\* `await call(...)`: the request goes out and the invocation waits for it
Issue(r, call) ==
  IF Posts(r, call)
    THEN [r EXCEPT !.pc = call, !.pending = @ + 1,
                   !.calls = IF call \in GatewayCalls THEN @ + 1 ELSE @]
    ELSE [r EXCEPT !.pc = call]

SettledLater(r, n) == n

\* requests still outstanding once the awaited one has returned or failed
Settled(r, n) == IF Posts(r, r.pc) THEN n - 1 ELSE n

\* the awaited call returns or fails
Settle(r) == [r EXCEPT !.pending = Settled(r, @)]

\* the awaited gateway call has failed (console.error, then a stand-in value)
GatewayFailed(r, failed) ==
  IF failed
    THEN [r EXCEPT !.faulted = TRUE, !.failedAt = IF @ = 0 THEN r.calls ELSE @]
    ELSE r

InsertJobOmitted(J, cid, flag) == J

\* .insert({connection_id, status: 'running', ai_analysis_enabled, ...})
InsertJob(J, cid, flag) ==
  J \cup {[id |-> FreshId(J), connection_id |-> cid,
           status |-> JobInitialStatus, progress_percentage |-> 0,
           error_message |-> NULL, completed_at |-> FALSE,
           ai_analysis_enabled |-> flag,
           processed_databases |-> 0, processed_tables |-> 0, processed_columns |-> 0]}

\* insert into metadata_extraction_jobs; an insert error is logged and ignored
E_CreateJob(p) ==
  /\ inv[p].kind = "enhanced" /\ inv[p].pc = "createJob"
  /\ \/ /\ jobs' = InsertJob(jobs, inv[p].connRecId, inv[p].aiAnalysisEnabled)
        /\ inv' = [inv EXCEPT ![p] =
                     Issue([@ EXCEPT !.jobId = FreshId(jobs)], "getDatabases")]
        /\ UNCHANGED faults
     \/ /\ CanFail
        /\ faults' = faults + 1
        /\ inv' = [inv EXCEPT ![p] = Issue([@ EXCEPT !.faulted = TRUE], "getDatabases")]
        /\ UNCHANGED jobs
  /\ UNCHANGED <<connections, schemas, objects, fields, history, cache, syncHistory, geminiKey, chat, queryHistory>>

\* ---------------------------------------------------------------- extraction
NeedsGenAlways(col) == TRUE

\* `!column.comment || column.comment.trim() === ''`
NeedsGen(col) == col.comment = NULL \/ col.comment = "" \/ Trim(col.comment) = ""

\* one row of the describe answer as a column descriptor
MapColumn(row) ==
  [name |-> row[1], type |-> row[2], comment |-> OrNull(row[5]), ai_definition |-> UNDEF]

\* analyzeTableStructure, the branch that needs no request:
\* column.ai_definition = column.comment
CopyComments(cols) ==
  [i \in 1..Len(cols) |->
     IF NeedsGen(cols[i]) THEN cols[i]
     ELSE [cols[i] EXCEPT !.ai_definition = cols[i].comment]]

\* index of the first column at or after `from` that needs a generated text
NextGen(cols, from) ==
  IF \E i \in from..Len(cols) : NeedsGen(cols[i])
    THEN CHOOSE i \in from..Len(cols) :
           NeedsGen(cols[i]) /\ \A j \in from..(i - 1) : ~NeedsGen(cols[j])
    ELSE Len(cols) + 1

\* storeComprehensiveMetadata is entered: first database of the metadata
StoreBegin(r) ==
  IF Len(r.metadata) = 0
    THEN Returned(r)
    ELSE [r EXCEPT !.pc = "upsertSchema", !.si = 1]

RECURSIVE Sum(_)
\* reduce((total, x) => total + x, 0) over a list of numbers
Sum(seq) ==
  IF Len(seq) = 0 THEN 0 ELSE Head(seq) + Sum(Tail(seq))

\* the databases, tables and columns the metadata of a run holds
\* (the metadata_summary of lines 422-430)
MetadataSummary(md) ==
  LET DbColumns(db) == Sum([j \in 1..Len(db.tables) |-> Len(db.tables[j].columns)])
  IN [databases |-> Len(md),
      tables    |-> Sum([i \in 1..Len(md) |-> Len(md[i].tables)]),
      columns   |-> Sum([i \in 1..Len(md) |-> DbColumns(md[i])])]

\* extractComprehensiveMetadata returns
Extracted(r) ==
  LET r1 == [r EXCEPT !.dbs = <<>>, !.di = 0, !.tables = <<>>, !.ti = 0,
                      !.cols = <<>>, !.ci = 0,
                      !.extracted = MetadataSummary(r.metadata)]
  IN IF r.kind = "enhanced" THEN [r1 EXCEPT !.pc = "callStore"] ELSE StoreBegin(r1)

\* end of the loop body of `for (const database of databases)`
DbDone(r) ==
  IF r.di < Len(r.dbs)
    THEN Issue([r EXCEPT !.di = r.di + 1, !.tables = <<>>, !.ti = 0,
                         !.cols = <<>>, !.ci = 0], "getTables")
    ELSE Extracted(r)

\* metadata.databases[database].schemas[schema].tables[table] = { columns }
TableDone(r) ==
  LET n  == Len(r.metadata)
      md == [r.metadata EXCEPT ![n].tables =
               Append(@, [name |-> r.tables[r.ti], columns |-> r.cols])]
  IN IF r.ti < Len(r.tables)
       THEN Issue([r EXCEPT !.metadata = md, !.ti = r.ti + 1,
                            !.cols = <<>>, !.ci = 0], "getTableStructure")
       ELSE DbDone([r EXCEPT !.metadata = md])

Extracting(p) == inv[p].kind \in {"enhanced", "pipeline"}

\* getDatabases: SHOW DATABASES through the gateway
X_GetDatabases(p) ==
  /\ Extracting(p) /\ inv[p].pc = "getDatabases"
  /\ \E out \in {"table", "other", "throw"} :
       /\ out # "table" => CanFail
       /\ faults' = IF out = "table" THEN faults ELSE faults + 1
       /\ LET r    == Settle(inv[p])
              list == CASE out = "table" -> RemoteDatabases(r.conn.id)
                        [] out = "other" -> <<>>
                        [] OTHER -> <<"default">>
              r1   == GatewayFailed([r EXCEPT !.dbs = list, !.di = 1], out # "table")
          IN inv' = [inv EXCEPT ![p] =
                       IF Len(list) = 0 THEN Extracted(r1)
                       ELSE Issue(r1, "getTables")]
  /\ UNCHANGED <<storeVars, geminiKey, chat, queryHistory>>

\* getTables: SHOW TABLES FROM <database>; any failure yields no tables
X_GetTables(p) ==
  /\ Extracting(p) /\ inv[p].pc = "getTables"
  /\ \E ok \in BOOLEAN :
       /\ ~ok => CanFail
       /\ faults' = IF ok THEN faults ELSE faults + 1
       /\ LET r    == Settle(inv[p])
              db   == r.dbs[r.di]
              list == IF ok THEN RemoteTables(r.conn.id, db) ELSE <<>>
              r1   == GatewayFailed(
                        [r EXCEPT !.metadata = Append(@, [name |-> db, tables |-> <<>>]),
                                  !.tables = list, !.ti = 1], ~ok)
          IN inv' = [inv EXCEPT ![p] =
                       IF Len(list) = 0 THEN DbDone(r1)
                       ELSE Issue(r1, "getTableStructure")]
  /\ UNCHANGED <<storeVars, geminiKey, chat, queryHistory>>

\* getTableStructure, then the part of analyzeTableStructure up to its first
\* generative-text request
X_GetTableStructure(p) ==
  /\ Extracting(p) /\ inv[p].pc = "getTableStructure"
  /\ \E ok \in BOOLEAN :
       /\ ~ok => CanFail /\ inv[p].conn.type \in StructureDialects
       /\ faults' = IF ok THEN faults ELSE faults + 1
       /\ LET r    == Settle(inv[p])
              db   == r.dbs[r.di]
              raw  == IF ok /\ r.conn.type \in StructureDialects
                        THEN RemoteColumns(r.conn.id, db, r.tables[r.ti])
                        ELSE <<>>
              cols == [i \in 1..Len(raw) |-> MapColumn(raw[i])]
              r1   == GatewayFailed(r, ~ok)
          IN inv' = [inv EXCEPT ![p] =
               IF geminiKey
                 THEN LET c2 == CopyComments(cols)
                          g  == NextGen(c2, 1)
                      IN IF g <= Len(c2)
                           THEN Issue([r1 EXCEPT !.cols = c2, !.ci = g], "generate")
                           ELSE TableDone([r1 EXCEPT !.cols = c2])
                 ELSE TableDone([r1 EXCEPT !.cols = cols])]
  /\ UNCHANGED <<storeVars, geminiKey, chat, queryHistory>>

GenerationAnswerUnguarded(out, col) ==
  IF out \in GenTexts THEN Trim(out) ELSE UNDEF

\* generateColumnDefinition, what it returns for the answer of the service:
\* `text ? text.trim() : fallback`, and the fallback again in the catch block
GenerationAnswer(out, col) ==
  IF out \in GenTexts THEN Trim(out) ELSE FallbackDefinition(col.name, col.type)

\* generateColumnDefinition: one request to the generative-text service
X_Generate(p) ==
  /\ Extracting(p) /\ inv[p].pc = "generate"
  /\ \E out \in GenTexts \cup {"<no text>", "<throw>"} :
       /\ out \notin GenTexts => CanFail
       /\ faults' = IF out \in GenTexts THEN faults ELSE faults + 1
       /\ LET r   == Settle(inv[p])
              col == r.cols[r.ci]
              def == GenerationAnswer(out, col)
              req == [database |-> r.dbs[r.di], table |-> r.tables[r.ti],
                      column |-> col.name, type |-> col.type, comment |-> col.comment,
                      failed |-> out \notin GenTexts]
          IN inv' = [inv EXCEPT ![p] =
                       [r EXCEPT !.cols[r.ci].ai_definition = def,
                                 !.genReqs = Append(@, req),
                                 !.faulted = @ \/ out \notin GenTexts,
                                 !.pc = "delay"]]
  /\ UNCHANGED <<storeVars, geminiKey, chat, queryHistory>>

DelaySkipped(r) == r

\* await new Promise(resolve => setTimeout(resolve, 500)): the timer has fired
Delayed(r) == [r EXCEPT !.delays = @ + 1]

\* the delay that follows a request, then on to the next column that needs a
\* request
X_Delay(p) ==
  /\ Extracting(p) /\ inv[p].pc = "delay"
  /\ LET r == Delayed(inv[p])
         g == NextGen(r.cols, r.ci + 1)
     IN inv' = [inv EXCEPT ![p] =
                  IF g <= Len(r.cols) THEN Issue([r EXCEPT !.ci = g], "generate")
                  ELSE TableDone(r)]
  /\ UNCHANGED <<storeVars, geminiKey, chat, queryHistory, faults>>

\* ---------------------------------------------------------------- storeComprehensiveMetadata
\* end of the loop body of `for (const [databaseName, database] of ...)`
NextSchema(r) ==
  IF r.si < Len(r.metadata)
    THEN [r EXCEPT !.si = r.si + 1, !.oi = 0, !.fi = 0, !.pc = "upsertSchema"]
    ELSE Returned(r)

\* end of the loop body of `for (const [tableName, table] of ...)`
NextObject(r) ==
  IF r.oi < Len(r.metadata[r.si].tables)
    THEN [r EXCEPT !.oi = r.oi + 1, !.fi = 0, !.pc = "upsertObject"]
    ELSE NextSchema(r)

\* end of the loop body of `for (const column of table.columns)`
NextField(r) ==
  IF r.fi < Len(r.metadata[r.si].tables[r.oi].columns)
    THEN [r EXCEPT !.fi = r.fi + 1, !.pc = "upsertField"]
    ELSE NextObject(r)

\* an upsert has answered with an error (console.error, the loop goes on)
UpsertFailed(r) == [r EXCEPT !.faulted = TRUE, !.storeFailed = TRUE]

\* the error of an upsert whose payload the table rejects is noted like any other
Rejected(r, keys) == IF PayloadAccepted(keys) THEN r ELSE [r EXCEPT !.storeFailed = TRUE]

\* the field row storeComprehensiveMetadata sends for a column
EnhancedFieldRow(objectId, column) ==
  [object_id |-> objectId, name |-> column.name, data_type |-> column.type,
   comment |-> column.comment,
   description |-> column.comment,
   ai_description |-> column.ai_definition,
   business_definition |-> column.ai_definition]

W_UpsertSchema(p) ==
  /\ inv[p].kind = "pipeline" /\ inv[p].pc = "upsertSchema"
  /\ LET r  == inv[p]
         db == r.metadata[r.si]
     IN \/ /\ schemas' = UpsertSchema(schemas, r.connRecId, db.name)
           /\ LET r1 == [r EXCEPT !.schemaId = SchemaIdOf(schemas', r.connRecId, db.name),
                                  !.inserted = @ + Cardinality(schemas') - Cardinality(schemas)]
              IN inv' = [inv EXCEPT ![p] =
                           IF Len(db.tables) = 0 THEN NextSchema(r1)
                           ELSE [r1 EXCEPT !.oi = 1, !.pc = "upsertObject"]]
           /\ UNCHANGED faults
        \/ /\ CanFail
           /\ faults' = faults + 1
           /\ inv' = [inv EXCEPT ![p] = NextSchema(UpsertFailed(r))]
           /\ UNCHANGED schemas
  /\ UNCHANGED <<connections, objects, fields, history, cache, jobs, syncHistory, geminiKey, chat, queryHistory>>

W_UpsertObject(p) ==
  /\ inv[p].kind = "pipeline" /\ inv[p].pc = "upsertObject"
  /\ LET r     == inv[p]
         table == r.metadata[r.si].tables[r.oi]
     IN \/ /\ objects' = UpsertObject(objects, r.schemaId, table.name)
           /\ LET r1 == [r EXCEPT !.objectId = ObjectIdOf(objects', r.schemaId, table.name),
                                  !.inserted = @ + Cardinality(objects') - Cardinality(objects)]
              IN inv' = [inv EXCEPT ![p] =
                           IF Len(table.columns) = 0 THEN NextObject(r1)
                           ELSE [r1 EXCEPT !.fi = 1, !.pc = "upsertField"]]
           /\ UNCHANGED faults
        \/ /\ CanFail
           /\ faults' = faults + 1
           /\ inv' = [inv EXCEPT ![p] = NextObject(UpsertFailed(r))]
           /\ UNCHANGED objects
  /\ UNCHANGED <<connections, schemas, fields, history, cache, jobs, syncHistory, geminiKey, chat, queryHistory>>

W_UpsertField(p) ==
  /\ inv[p].kind = "pipeline" /\ inv[p].pc = "upsertField"
  /\ LET r      == inv[p]
         column == r.metadata[r.si].tables[r.oi].columns[r.fi]
     IN \/ /\ fields' = IF PayloadAccepted(EnhancedFieldKeys)
                          THEN UpsertField(fields, EnhancedFieldRow(r.objectId, column))
                          ELSE fields
           /\ inv' = [inv EXCEPT ![p] =
                        NextField([Rejected(r, EnhancedFieldKeys) EXCEPT !.inserted =
                                     @ + Cardinality(fields') - Cardinality(fields)])]
           /\ UNCHANGED faults
        \/ /\ CanFail
           /\ faults' = faults + 1
           /\ inv' = [inv EXCEPT ![p] = NextField(UpsertFailed(r))]
           /\ UNCHANGED fields
  /\ UNCHANGED <<connections, schemas, objects, history, cache, jobs, syncHistory, geminiKey, chat, queryHistory>>

\* extractor.extractComprehensiveMetadata(connection) followed by
\* storeComprehensiveMetadata(connection.id, metadata), called as functions
StartPipeline(p) ==
  /\ MayStart(p, "pipeline")
  /\ \E c \in connections :
       inv' = [inv EXCEPT ![p] =
                 Issue([Idle EXCEPT !.kind = "pipeline",
                              !.connectionId = c.id, !.connRecId = c.id, !.conn = c,
                              !.hist = Cardinality(history),
                              !.prior = \E q \in Procs : CleanDone(q, "pipeline", c.id)],
                       "getDatabases")]
  /\ UNCHANGED <<storeVars, geminiKey, chat, queryHistory, faults>>

\* ---------------------------------------------------------------- enhanced-schema-sync, end of the handler
UpdateJobSkipped(J, jobId, patch) == J

\* .update(patch).eq('id', jobId) on metadata_extraction_jobs
UpdateJob(J, jobId, patch) ==
  {IF j.id = jobId
     THEN [j EXCEPT !.status = patch.status,
                    !.progress_percentage = Merged(patch.progress_percentage, @),
                    !.error_message = Merged(patch.error_message, @),
                    !.completed_at = TRUE]
     ELSE j : j \in J}

\* message of the TypeError raised by `this.storeComprehensiveMetadata(...)`:
\* `this` is module.exports, which has no such property
StoreCallError == "this.storeComprehensiveMetadata is not a function"

\* line 403 throws, the catch block marks the job failed and answers 500
E_CallStore(p) ==
  /\ inv[p].kind = "enhanced" /\ inv[p].pc = "callStore"
  /\ LET r == inv[p]
         patch == [status |-> "failed", progress_percentage |-> UNDEF,
                   error_message |-> StoreCallError]
     IN \/ /\ jobs' = IF r.jobId # 0 THEN UpdateJob(jobs, r.jobId, patch) ELSE jobs
           /\ inv' = [inv EXCEPT ![p] =
                        Respond([r EXCEPT !.jobUpdate = IF r.jobId # 0 THEN "done" ELSE @],
                                500, FALSE, StoreCallError)]
           /\ UNCHANGED faults
        \/ /\ r.jobId # 0 /\ CanFail
           /\ faults' = faults + 1
           /\ inv' = [inv EXCEPT ![p] =
                        Respond([r EXCEPT !.faulted = TRUE, !.jobUpdate = "failed"],
                                500, FALSE, StoreCallError)]
           /\ UNCHANGED jobs
  /\ UNCHANGED <<connections, schemas, objects, fields, history, cache, syncHistory, geminiKey, chat, queryHistory>>

\* ---------------------------------------------------------------- schema-sync
\* dialects syncSchemaViaMCP has a column query for
SyncDialects == {"clickhouse", "mysql", "postgresql"}

\* `Failed to sync schema via MCP for ${connection.type}`
SyncError(type) == "Failed to sync schema via MCP for " \o type

RECURSIVE RowsOfTables(_, _, _)
\* the rows {database, table, column_name, data_type} of the tables of one database
RowsOfTables(src, db, tables) ==
  IF Len(tables) = 0 THEN <<>>
  ELSE LET cs == RemoteColumns(src, db, Head(tables))
       IN [i \in 1..Len(cs) |->
             [database |-> db, table |-> Head(tables),
              column_name |-> cs[i][1], data_type |-> cs[i][2]]]
          \o RowsOfTables(src, db, Tail(tables))

\* answer of the column query: WHERE database = connection_config.database
SyncRows(conn) == RowsOfTables(conn.id, conn.database, RemoteTables(conn.id, conn.database))

RECURSIVE Distinct(_)
\* keys of an object filled in insertion order
Distinct(seq) ==
  IF Len(seq) = 0 THEN <<>>
  ELSE LET rest == Distinct(SubSeq(seq, 1, Len(seq) - 1))
           last == seq[Len(seq)]
       IN IF \E i \in 1..Len(rest) : rest[i] = last THEN rest ELSE Append(rest, last)

\* Object.values(schemas)
SchemaNames(rows) == Distinct([i \in 1..Len(rows) |-> rows[i].database])

\* Object.values(objects)
ObjectKeys(rows) ==
  Distinct([i \in 1..Len(rows) |-> [schema_name |-> rows[i].database, name |-> rows[i].table]])

\* schema-sync: method check, body, connection lookup
S_Resolve(p) ==
  /\ inv[p].kind = "schema" /\ inv[p].pc = "recv"
  /\ LET r == inv[p] IN
       inv' = [inv EXCEPT ![p] =
         IF r.method # "POST" THEN Respond(r, 405, FALSE, "Method not allowed")
         ELSE IF r.body = "absent" THEN Respond(r, 500, FALSE, "Internal server error")
         ELSE IF r.body = "invalid" THEN Abandon(r, "Unexpected token")
         ELSE IF r.connectionId = UNDEF
           THEN Respond(r, 400, FALSE, "Connection ID is required")
         ELSE IF \E c \in connections : c.id = r.connectionId
           THEN [r EXCEPT !.pc = "sync", !.connRecId = r.connectionId,
                          !.conn = CHOOSE c \in connections : c.id = r.connectionId,
                          !.hist = Cardinality(history),
                          !.prior = \E q \in Procs : CleanDone(q, "schema", r.connectionId)]
           ELSE Respond(r, 404, FALSE, "Connection not found")]
  /\ UNCHANGED <<storeVars, geminiKey, chat, queryHistory, faults>>

\* syncSchemaViaMCP, then storeSchemaData up to its first store call
S_Sync(p) ==
  /\ inv[p].kind = "schema" /\ inv[p].pc = "sync"
  /\ \E ok \in BOOLEAN :
       /\ ~ok => CanFail /\ inv[p].conn.type \in SyncDialects
       /\ faults' = IF ok THEN faults ELSE faults + 1
       /\ LET r == inv[p] IN
            inv' = [inv EXCEPT ![p] =
              IF ok /\ r.conn.type \in SyncDialects
                THEN LET rows == SyncRows(r.conn)
                     IN IF Len(rows) = 0 THEN [r EXCEPT !.rows = rows, !.pc = "logSuccess"]
                        ELSE [r EXCEPT !.rows = rows, !.si = 1, !.pc = "storeSchema"]
                ELSE [r EXCEPT !.error = SyncError(r.conn.type), !.pc = "logFailed",
                               !.faulted = @ \/ ~ok]]
  /\ UNCHANGED <<storeVars, geminiKey, chat, queryHistory>>

\* storeSchemaData: one upsert per schema; the result is not looked at
S_StoreSchema(p) ==
  /\ inv[p].kind = "schema" /\ inv[p].pc = "storeSchema"
  /\ LET r     == inv[p]
         names == SchemaNames(r.rows)
         r1    == IF r.si < Len(names) THEN [r EXCEPT !.si = r.si + 1]
                  ELSE [r EXCEPT !.oi = 1, !.pc = "storeObject"]
     IN \/ /\ schemas' = UpsertSchema(schemas, r.connectionId, names[r.si])
           /\ inv' = [inv EXCEPT ![p] =
                        [r1 EXCEPT !.inserted = @ + Cardinality(schemas') - Cardinality(schemas)]]
           /\ UNCHANGED faults
        \/ /\ CanFail
           /\ faults' = faults + 1
           /\ inv' = [inv EXCEPT ![p] = UpsertFailed(r1)]
           /\ UNCHANGED schemas
  /\ UNCHANGED <<connections, objects, fields, history, cache, jobs, syncHistory, geminiKey, chat, queryHistory>>

\* storeSchemaData: look the schema up by (connection_id, name), then upsert
\* the object under it. No step of any invocation removes a schema row or
\* changes its id, so the two store calls are taken as one step.
S_StoreObject(p) ==
  /\ inv[p].kind = "schema" /\ inv[p].pc = "storeObject"
  /\ LET r     == inv[p]
         keys  == ObjectKeys(r.rows)
         obj   == keys[r.oi]
         found == {s \in schemas : s.connection_id = r.connectionId /\ s.name = obj.schema_name}
         r1    == IF r.oi < Len(keys) THEN [r EXCEPT !.oi = r.oi + 1]
                  ELSE [r EXCEPT !.fi = 1, !.pc = "storeField"]
     IN \/ /\ objects' = IF Cardinality(found) = 1
                           THEN UpsertObject(objects, (CHOOSE s \in found : TRUE).id, obj.name)
                           ELSE objects
           /\ inv' = [inv EXCEPT ![p] =
                        [r1 EXCEPT !.inserted = @ + Cardinality(objects') - Cardinality(objects)]]
           /\ UNCHANGED faults
        \/ /\ CanFail
           /\ faults' = faults + 1
           /\ inv' = [inv EXCEPT ![p] = UpsertFailed(r1)]
           /\ UNCHANGED objects
  /\ UNCHANGED <<connections, schemas, fields, history, cache, jobs, syncHistory, geminiKey, chat, queryHistory>>

\* the field row storeSchemaData sends for a gateway row
SchemaSyncFieldRow(objectId, row) ==
  [object_id |-> objectId, name |-> row.column_name, data_type |-> row.data_type,
   comment |-> UNDEF, description |-> UNDEF, ai_description |-> UNDEF,
   business_definition |-> UNDEF]

\* storeSchemaData: look the object up by name alone (.single()), then upsert
\* the field under it; taken as one step like S_StoreObject
S_StoreField(p) ==
  /\ inv[p].kind = "schema" /\ inv[p].pc = "storeField"
  /\ LET r     == inv[p]
         row   == r.rows[r.fi]
         found == {o \in objects : o.name = row.table}
         r1    == IF r.fi < Len(r.rows) THEN [r EXCEPT !.fi = r.fi + 1]
                  ELSE [r EXCEPT !.pc = "logSuccess"]
     IN \/ /\ fields' = IF Cardinality(found) = 1 /\ PayloadAccepted(SchemaSyncFieldKeys)
                          THEN UpsertField(fields,
                                 SchemaSyncFieldRow((CHOOSE o \in found : TRUE).id, row))
                          ELSE fields
           /\ inv' = [inv EXCEPT ![p] =
                        [Rejected(r1, SchemaSyncFieldKeys) EXCEPT
                           !.inserted = @ + Cardinality(fields') - Cardinality(fields)]]
           /\ UNCHANGED faults
        \/ /\ CanFail
           /\ faults' = faults + 1
           /\ inv' = [inv EXCEPT ![p] = UpsertFailed(r1)]
           /\ UNCHANGED fields
  /\ UNCHANGED <<connections, schemas, objects, history, cache, jobs, syncHistory, geminiKey, chat, queryHistory>>

LogRowSkipped(H, cid, status, n, err) == H

\* logSyncHistory: insert into data_source_sync_history; errors are swallowed
LogRow(H, cid, status, n, err) ==
  H \cup {[id |-> FreshId(H), connection_id |-> cid, status |-> status,
           objects_synced |-> n, error_message |-> err]}

\* logSyncHistory(connectionId, 'schema', 'success', ...) and the 200 answer
S_LogSuccess(p) ==
  /\ inv[p].kind = "schema" /\ inv[p].pc = "logSuccess"
  /\ LET r == inv[p]
     IN \/ /\ syncHistory' = LogRow(syncHistory, r.connectionId, "success", Len(r.rows), NULL)
           /\ inv' = [inv EXCEPT ![p] = Respond([r EXCEPT !.logged = TRUE], 200, TRUE, "")]
           /\ UNCHANGED faults
        \/ /\ CanFail
           /\ faults' = faults + 1
           /\ inv' = [inv EXCEPT ![p] = Respond([r EXCEPT !.faulted = TRUE], 200, TRUE, "")]
           /\ UNCHANGED syncHistory
  /\ UNCHANGED <<connections, schemas, objects, fields, history, cache, jobs, geminiKey, chat, queryHistory>>

\* the catch block: logSyncHistory(connectionId, 'schema', 'failed', ...) and 500
S_LogFailed(p) ==
  /\ inv[p].kind = "schema" /\ inv[p].pc = "logFailed"
  /\ LET r == inv[p]
     IN \/ /\ syncHistory' = LogRow(syncHistory, r.connectionId, "failed", 0, r.error)
           /\ inv' = [inv EXCEPT ![p] = Respond([r EXCEPT !.logged = TRUE], 500, FALSE, r.error)]
           /\ UNCHANGED faults
        \/ /\ CanFail
           /\ faults' = faults + 1
           /\ inv' = [inv EXCEPT ![p] = Respond([r EXCEPT !.faulted = TRUE], 500, FALSE, r.error)]
           /\ UNCHANGED syncHistory
  /\ UNCHANGED <<connections, schemas, objects, fields, history, cache, jobs, geminiKey, chat, queryHistory>>

\* ---------------------------------------------------------------- agent
\* rows of clickhouse_connections, the registry the agent handler reads
ClickhouseConnections == {"k1"}

\* bodies of requests to the agent: <<shape, connectionId>>; a JSON body may
\* lack naturalLanguageQuery and connectionId ({})
AgentBodies(m) ==
  IF m = "POST"
    THEN {<<"json", cid>> : cid \in ClickhouseConnections \cup {"k9", UNDEF}}
         \cup {<<"absent", "">>, <<"invalid", "">>}
    ELSE {<<"absent", "">>}

\* a request to /.netlify/functions/agent arrives
StartAgent(p) ==
  /\ MayStart(p, "agent")
  /\ \E m \in Methods : \E b \in AgentBodies(m) :
       inv' = [inv EXCEPT ![p] =
                 [Idle EXCEPT !.kind = "agent", !.pc = "recv", !.method = m,
                              !.body = b[1], !.connectionId = b[2]]]
  /\ UNCHANGED <<storeVars, geminiKey, chat, queryHistory, faults>>

\* agent: method check, body, required fields, connection lookup
A_Resolve(p) ==
  /\ inv[p].kind = "agent" /\ inv[p].pc = "recv"
  /\ LET r == inv[p] IN
       inv' = [inv EXCEPT ![p] =
         IF r.method # "POST" THEN Respond(r, 405, FALSE, "Method not allowed")
         ELSE IF r.body = "absent" THEN Respond(r, 500, FALSE, "Internal server error")
         ELSE IF r.body = "invalid" THEN Abandon(r, "Unexpected token")
         ELSE IF r.connectionId = UNDEF
           THEN Respond(r, 400, FALSE,
                        "Natural language query and connection ID are required")
         ELSE IF r.connectionId \in ClickhouseConnections
           THEN [r EXCEPT !.pc = "context", !.connRecId = r.connectionId]
           ELSE Respond(r, 404, FALSE, "Connection not found")]
  /\ UNCHANGED <<storeVars, geminiKey, chat, queryHistory, faults>>

\* getSchemaContext: a failure is swallowed and yields no context
A_Context(p) ==
  /\ inv[p].kind = "agent" /\ inv[p].pc = "context"
  /\ \E ok \in BOOLEAN :
       /\ ~ok => CanFail
       /\ faults' = IF ok THEN faults ELSE faults + 1
       /\ inv' = [inv EXCEPT ![p] = [@ EXCEPT !.pc = "convert", !.faulted = @ \/ ~ok]]
  /\ UNCHANGED <<storeVars, geminiKey, chat, queryHistory>>

\* convertToSQL, then executeQuery: either gateway call may fail and throw
A_Gateway(p) ==
  /\ inv[p].kind = "agent" /\ inv[p].pc \in {"convert", "execute"}
  /\ \E ok \in BOOLEAN :
       /\ ~ok => CanFail
       /\ faults' = IF ok THEN faults ELSE faults + 1
       /\ LET r == inv[p] IN
            inv' = [inv EXCEPT ![p] =
              IF ok
                THEN [r EXCEPT !.pc = IF r.pc = "convert" THEN "execute" ELSE "logQuery"]
                ELSE [r EXCEPT !.pc = "logQueryFailed", !.faulted = TRUE,
                               !.error = IF r.pc = "convert"
                                           THEN "Failed to convert natural language to SQL"
                                           ELSE "Failed to execute SQL query"]]
  /\ UNCHANGED <<storeVars, geminiKey, chat, queryHistory>>

\* logQueryHistory: insert into query_history; errors are swallowed
QueryRow(H, status, err) ==
  H \cup {[id |-> FreshId(H), status |-> status, error_message |-> err]}

\* logQueryHistory({..., status: 'success'}) and the 200 answer, or the catch
\* block: logQueryHistory({..., status: 'error'}) and the 500 answer
A_Log(p) ==
  /\ inv[p].kind = "agent" /\ inv[p].pc \in {"logQuery", "logQueryFailed"}
  /\ LET r  == inv[p]
         ok == r.pc = "logQuery"
         r1 == IF ok THEN Respond(r, 200, TRUE, "")
               ELSE Respond(r, 500, FALSE, "Internal server error")
     IN \/ /\ queryHistory' = QueryRow(queryHistory, IF ok THEN "success" ELSE "error",
                                       IF ok THEN UNDEF ELSE r.error)
           /\ inv' = [inv EXCEPT ![p] = r1]
           /\ UNCHANGED faults
        \/ /\ CanFail
           /\ faults' = faults + 1
           /\ inv' = [inv EXCEPT ![p] = [r1 EXCEPT !.faulted = TRUE]]
           /\ UNCHANGED queryHistory
  /\ UNCHANGED <<storeVars, geminiKey, chat>>

Agent(p) ==
  \/ StartAgent(p)
  \/ A_Resolve(p)
  \/ A_Context(p)
  \/ A_Gateway(p)
  \/ A_Log(p)

\* ---------------------------------------------------------------- specifications
Extract(p) ==
  \/ X_GetDatabases(p)
  \/ X_GetTables(p)
  \/ X_GetTableStructure(p)
  \/ X_Generate(p)
  \/ X_Delay(p)

\* the steps of a schema-sync invocation after the request has arrived
SchemaSyncSteps(p) ==
  \/ S_Resolve(p)
  \/ S_Sync(p)
  \/ S_StoreSchema(p)
  \/ S_StoreObject(p)
  \/ S_StoreField(p)
  \/ S_LogSuccess(p)
  \/ S_LogFailed(p)

SchemaSync(p) ==
  \/ StartSchemaSync(p)
  \/ SchemaSyncSteps(p)

\* the enhanced-schema-sync handler as deployed
Next ==
  \E p \in Procs :
    \/ StartEnhanced(p)
    \/ E_Resolve(p)
    \/ E_CreateJob(p)
    \/ Extract(p)
    \/ E_CallStore(p)

Spec == Init /\ [][Next]_vars

\* connection objects a request body can carry, whatever connectionId it names
BodyConnections == {c \in InitConnections : c.id \in {"c1", "c2"}}

\* connectionId of a request that saves or re-syncs a connection
SaveIds == {"new", "c1", "c9"}

\* a GET, or a POST to enhanced-schema-sync whose body names one of the
\* connectionIds and carries one of the connection objects, or none
\* ({connectionId})
StartEnhancedWith(p, ids, conns) ==
  /\ MayStart(p, "enhanced")
  /\ \/ \E cid \in ids : \E conn \in conns \cup {Idle.conn} :
          inv' = [inv EXCEPT ![p] =
                    [Idle EXCEPT !.kind = "enhanced", !.pc = "recv", !.method = "POST",
                                 !.body = "json", !.connectionId = cid, !.conn = conn]]
     \/ inv' = [inv EXCEPT ![p] = EnhancedRequest("GET", <<"absent", "", TRUE>>)]
  /\ UNCHANGED <<storeVars, geminiKey, chat, queryHistory, faults>>

StartEnhancedSave(p) == StartEnhancedWith(p, SaveIds, BodyConnections)

\* the handler with the requests of the connection form (connectionId 'new')
\* and of any other caller
NextSave ==
  \E p \in Procs :
    \/ StartEnhancedSave(p)
    \/ E_Resolve(p)
    \/ E_CreateConnection(p)
    \/ E_CreateJob(p)
    \/ Extract(p)
    \/ E_CallStore(p)

\* the registry holds c1
InitSave == InitWith({c \in InitConnections : c.id = "c1"})
SpecSave == InitSave /\ [][NextSave]_vars

\* the registered connection of a type getTableStructure has no query for
UnsupportedConnections == {c \in InitConnections : c.type \notin StructureDialects}

\* requests about such a connection: a save, a re-sync, an unregistered id
StartEnhancedUnsupported(p) ==
  StartEnhancedWith(p, {"new", "c9"} \cup {c.id : c \in UnsupportedConnections},
                    UnsupportedConnections)

\* the handler when every source is of such a type: no column is described
\* and no generative-text request arises
NextUnsupported ==
  \E p \in Procs :
    \/ StartEnhancedUnsupported(p)
    \/ E_Resolve(p)
    \/ E_CreateConnection(p)
    \/ E_CreateJob(p)
    \/ X_GetDatabases(p)
    \/ X_GetTables(p)
    \/ X_GetTableStructure(p)
    \/ E_CallStore(p)

InitUnsupported == InitWith(UnsupportedConnections)
SpecUnsupported == InitUnsupported /\ [][NextUnsupported]_vars

\* the same handler over a registry that includes TwoDatabaseConnection
SpecTwoDatabases == InitTwoDatabases /\ [][Next]_vars

\* the handler of enhanced-schema-sync when the registry holds the
\* two-database server alone
InitOneServer == InitWith({TwoDatabaseConnection})
SpecOneServer == InitOneServer /\ [][Next]_vars

\* the schema-sync handler as deployed; it shares no table with the
\* enhanced-schema-sync handler, which writes metadata_extraction_jobs only
NextSchemaSync == \E p \in Procs : SchemaSync(p)

SpecSchemaSync == Init /\ [][NextSchemaSync]_vars

\* requests of any shape to the enhanced-schema-sync handler
StartEnhancedAny(p) ==
  /\ MayStart(p, "enhanced")
  /\ \E m \in Methods : \E b \in AnyBodies(m) :
       inv' = [inv EXCEPT ![p] = EnhancedRequest(m, b)]
  /\ UNCHANGED <<storeVars, geminiKey, chat, queryHistory, faults>>

\* requests of any shape to the schema-sync handler
StartSchemaSyncAny(p) ==
  /\ MayStart(p, "schema")
  /\ \E m \in Methods : \E b \in AnyBodies(m) :
       /\ b[3]
       /\ inv' = [inv EXCEPT ![p] =
                    [Idle EXCEPT !.kind = "schema", !.pc = "recv", !.method = m,
                                 !.body = b[1], !.connectionId = b[2]]]
  /\ UNCHANGED <<storeVars, geminiKey, chat, queryHistory, faults>>

\* the three handlers as deployed, for every shape of request
NextRequests ==
  \E p \in Procs :
    \/ StartEnhancedAny(p)
    \/ E_Resolve(p)
    \/ E_CreateJob(p)
    \/ Extract(p)
    \/ E_CallStore(p)
    \/ StartSchemaSyncAny(p)
    \/ SchemaSyncSteps(p)
    \/ Agent(p)

SpecRequests == Init /\ [][NextRequests]_vars

Write(p) ==
  \/ W_UpsertSchema(p)
  \/ W_UpsertObject(p)
  \/ W_UpsertField(p)

\* the two writers: the extractor and storeComprehensiveMetadata called as
\* functions, and the schema-sync handler
NextWriter ==
  \E p \in Procs :
    \/ StartPipeline(p)
    \/ Extract(p)
    \/ Write(p)
    \/ SchemaSync(p)

SpecWriter == Init /\ [][NextWriter]_vars

\* ---------------------------------------------------------------- chat page
\* what the user can have in the input field
ChatTexts == {"", " ", "top users"}

\* kinds of reply message: the result of the query, the error of the agent,
\* the text of the catch block
Replies == {"result", "error", "connection-error"}

ControlsAlwaysEnabled(c) == TRUE

\* disabled={isLoading} on the input and the buttons
ControlsEnabled(c) == ~c.isLoading

\* `if (!inputText.trim()) return`, and disabled={... || !inputText.trim()}
Accepts(c) == Trim(c.inputText) # ""

\* the reply the try block builds from the parsed body of the response; a body
\* without `result` makes result.result.length throw
Reply(ok, body) ==
  IF body = "throws" THEN "connection-error"
  ELSE IF ~ok THEN "error"
  ELSE IF body = "noResult" THEN "connection-error"
  ELSE "result"

\* onChange of the input
C_Type ==
  /\ ControlsEnabled(chat)
  /\ \E t \in ChatTexts : t # chat.inputText /\ chat' = [chat EXCEPT !.inputText = t]
  /\ UNCHANGED <<storeVars, queryHistory, geminiKey, inv, faults>>

\* handleSendMessage up to the fetch: Enter in the input or a click on Send
C_Send ==
  /\ ControlsEnabled(chat)
  /\ Accepts(chat)
  /\ chat.sends < MaxSends
  /\ chat' = [chat EXCEPT !.messages = Append(@, "user"), !.inputText = "",
                            !.isLoading = TRUE, !.pc = "fetch", !.sends = @ + 1]
  /\ UNCHANGED <<storeVars, queryHistory, geminiKey, inv, faults>>

\* await fetch('/.netlify/functions/agent', ...) settles: a response that is
\* ok or not, or a rejection, which the catch block turns into a reply
C_FetchSettles ==
  /\ chat.pc = "fetch"
  /\ \/ \E ok \in BOOLEAN : chat' = [chat EXCEPT !.ok = ok, !.pc = "json"]
     \/ chat' = [chat EXCEPT !.messages = Append(@, "connection-error"), !.pc = "finally"]
  /\ UNCHANGED <<storeVars, queryHistory, geminiKey, inv, faults>>

\* await response.json() settles and the reply is appended
C_JsonSettles ==
  /\ chat.pc = "json"
  /\ \E body \in {"value", "noResult", "throws"} :
       chat' = [chat EXCEPT !.messages = Append(@, Reply(chat.ok, body)), !.pc = "finally"]
  /\ UNCHANGED <<storeVars, queryHistory, geminiKey, inv, faults>>

\* finally { setIsLoading(false) }
C_Finally ==
  /\ chat.pc = "finally"
  /\ chat' = [chat EXCEPT !.isLoading = FALSE, !.pc = "idle", !.ok = FALSE]
  /\ UNCHANGED <<storeVars, queryHistory, geminiKey, inv, faults>>

NextChat == C_Type \/ C_Send \/ C_FetchSettles \/ C_JsonSettles \/ C_Finally

\* the chat page; a pending fetch or body read settles in the end, and the
\* continuation of the handler then runs
SpecChat ==
  /\ Init /\ [][NextChat]_vars
  /\ WF_vars(C_FetchSettles) /\ WF_vars(C_JsonSettles) /\ WF_vars(C_Finally)

\* ---------------------------------------------------------------- claims
Writers == {"pipeline", "schema"}

\* a writer run that came to its end with no failure of the gateway, the
\* generative service or the store
CleanRun(p) ==
  /\ inv[p].kind \in Writers
  /\ inv[p].pc = "done"
  /\ inv[p].success
  /\ ~inv[p].faulted

\* C1: a run of a writer that follows a complete, failure-free run of the same
\* writer for the same connection (remote source unchanged) and is itself
\* failure-free inserts no Schema, Object or Field row and leaves
\* field_semantics_history as it found it.
C1_Idempotent ==
  \A p \in Procs :
    (CleanRun(p) /\ inv[p].prior) =>
      (inv[p].inserted = 0 /\ Cardinality(history) = inv[p].hist)

C1_Witness ==
  \E p \in Procs :
    /\ CleanRun(p) /\ inv[p].prior
    /\ inv[p].kind = "pipeline" /\ inv[p].connRecId = "c1"
    /\ Cardinality(fields) = 2

\* C2: in every reachable state no two Schema rows share (connection_id, name),
\* no two Object rows share (schema_id, name) and no two Field rows share
\* (object_id, name).
C2_NaturalKeys ==
  /\ \A a, b \in schemas :
       (a.connection_id = b.connection_id /\ a.name = b.name) => a = b
  /\ \A a, b \in objects :
       (a.schema_id = b.schema_id /\ a.name = b.name) => a = b
  /\ \A a, b \in fields :
       (a.object_id = b.object_id /\ a.name = b.name) => a = b

\* two runs for the same connection are writing fields at the same time
C2_Witness ==
  /\ \E p, q \in Procs :
       /\ p # q
       /\ inv[p].connRecId = inv[q].connRecId
       /\ inv[p].pc = "upsertField" /\ inv[q].pc \in {"upsertField", "storeField"}
  /\ fields # {}

\* C3: the status of a job row changes only from running to completed or from
\* running to failed; a completed or failed job never changes status again.
C3_JobTransitions ==
  [][\A j \in jobs : \A k \in jobs' :
       (j.id = k.id /\ j.status # k.status) =>
         (j.status = "running" /\ k.status \in {"completed", "failed"})]_vars

C3_Witness ==
  \E j, k \in jobs : j.status = "failed" /\ k.status = "running" /\ j.connection_id = k.connection_id

\* C4: an enhanced-sync invocation whose connection is resolved, whose job row
\* is created and in which no gateway call and no store write fails ends with
\* its job completed at progress 100 and answers 200 with success = true.
C4_CompletesOnSuccess ==
  \A p \in Procs :
    (inv[p].kind = "enhanced" /\ inv[p].pc = "done" /\ inv[p].jobId # 0 /\ ~inv[p].faulted) =>
      /\ inv[p].statusCode = 200 /\ inv[p].success
      /\ \E j \in jobs : /\ j.id = inv[p].jobId
                         /\ j.status = "completed"
                         /\ j.progress_percentage = 100

\* every generative-text request of every run
AllGenReqs == UNION {{inv[p].genReqs[i] : i \in 1..Len(inv[p].genReqs)} : p \in Procs}

\* C5 as stated: no generative-text request is issued for a field whose native
\* comment is a non-empty string, and the Field row of such a field has the
\* comment as its description.
C5_NonEmptyComment ==
  /\ \A req \in AllGenReqs : req.comment \in {NULL, ""}
  /\ \A f \in fields : f.comment \notin {NULL, ""} => f.description = f.comment

\* C5 (amended): no generative-text request is issued for a field whose native
\* comment is non-empty after trimming white space, and the Field row of every
\* field that has a native comment has that comment, verbatim, as description.
C5_Precedence ==
  /\ \A req \in AllGenReqs : req.comment = NULL \/ Trim(req.comment) = ""
  /\ \A f \in fields : f.comment \notin {NULL, ""} => f.description = f.comment

C5_Witness ==
  /\ \E f \in fields : f.comment = "order status" /\ f.description = "order status"
  /\ \E f \in fields : f.comment = " " /\ f.description = " "
  /\ \E req \in AllGenReqs : req.column = "id"

\* C6: with no generative-text credentials configured every Field row has a
\* description that is neither null nor empty; for a field without a native
\* comment it is "Column <name> of type <type>".
C6_FallbackDescription ==
  ~geminiKey =>
    \A f \in fields :
      /\ f.description \notin {NULL, ""}
      /\ f.comment = NULL => f.description = FallbackDefinition(f.name, f.data_type)

\* C7: within one run, comment-less fields that share (connection, table_name,
\* column_name, column_type) cause one generative-text request in total.
C7_OneRequestPerKey ==
  \A p \in Procs :
    \A i, j \in 1..Len(inv[p].genReqs) :
      LET a == inv[p].genReqs[i]
          b == inv[p].genReqs[j]
      IN (a.table = b.table /\ a.column = b.column /\ a.type = b.type) => i = j

HistoryOf(H, fieldId) == {h \in H : h.field_id = fieldId}

\* C8: when a run stores a business_definition that differs from the one the
\* Field row held, exactly one field_semantics_history row is appended for that
\* field and it carries the business_definition the Field row now has.
C8_HistoryOnChange ==
  [][\A f \in fields : \A g \in fields' :
       (f.id = g.id /\ f.business_definition # g.business_definition) =>
         /\ Cardinality(HistoryOf(history', f.id)) = Cardinality(HistoryOf(history, f.id)) + 1
         /\ \E h \in history' \ history :
              h.field_id = f.id /\ h.business_definition = g.business_definition]_vars

\* C9: in every reachable state the description, ai_description and
\* business_definition of each Field row equal those of the most recent
\* field_semantics_history row of that field.
C9_FieldMatchesHistory ==
  \A f \in fields :
    \E h \in HistoryOf(history, f.id) :
      /\ \A h2 \in HistoryOf(history, f.id) : h2.id <= h.id
      /\ h.description = f.description
      /\ h.ai_description = f.ai_description
      /\ h.business_definition = f.business_definition

\* the message names the data source type
Mentions(msg, type) ==
  msg \in {SyncError(type), "Unsupported data source type: " \o type}

TypeOf(cid) == (CHOOSE c \in connections : c.id = cid).type

\* C10: a sync run for a connection whose type has no dialect mapping ends with
\* its job (enhanced-sync) or its sync-history row (schema-sync) in status
\* failed with an error message that names the type, and the connection has no
\* Schema row.
C10_UnsupportedTypeFails ==
  \A p \in Procs :
    (/\ inv[p].pc = "done"
     /\ inv[p].kind \in {"enhanced", "schema"}
     /\ inv[p].connRecId # ""
     /\ TypeOf(inv[p].connRecId) \notin StructureDialects
     /\ ~inv[p].faulted) =>
      /\ inv[p].kind = "enhanced" =>
           \E j \in jobs : /\ j.id = inv[p].jobId
                           /\ j.status = "failed"
                           /\ Mentions(j.error_message, TypeOf(inv[p].connRecId))
      /\ inv[p].kind = "schema" =>
           \E h \in syncHistory : /\ h.connection_id = inv[p].connRecId
                                  /\ h.status = "failed"
                                  /\ Mentions(h.error_message, TypeOf(inv[p].connRecId))
      /\ \A s \in schemas : s.connection_id # inv[p].connRecId

\* the three request handlers
Handlers == {"enhanced", "schema", "agent"}

\* C11: every invocation of a handler, whatever the method and the body of the
\* request, ends having resolved exactly once, with a status code and a
\* success or error payload.
C11_ResolvesOnce ==
  \A p \in Procs :
    (inv[p].kind \in Handlers /\ inv[p].pc = "done") =>
      (inv[p].resolves = 1 /\ inv[p].statusCode # 0)

\* a synchronization run: an invocation that has issued an introspection call
SyncRuns == {p \in Procs : inv[p].kind = "enhanced" /\ inv[p].calls > 0}

\* the job rows of a run
JobsOf(p) == {j \in jobs : j.id = inv[p].jobId}

C13_GeneratedOnlyWithoutComment ==
  \A f \in fields :
    f.ai_description # NULL => (f.comment = NULL \/ Trim(f.comment) = "")

\* C14: once a gateway call of a run (enumerate databases, enumerate tables,
\* describe a table) has failed, the run issues no further introspection call
\* and, when it has ended, its job is in status failed.
C14_IntrospectionFailureIsFatal ==
  \A p \in Procs :
    (inv[p].kind = "enhanced" /\ inv[p].failedAt # 0) =>
      /\ inv[p].calls = inv[p].failedAt
      /\ (inv[p].pc = "done" /\ inv[p].jobId # 0) =>
           \E j \in JobsOf(p) : j.status = "failed"

\* C15: a run of schema-sync in which a schema, object or field upsert has
\* answered with an error ends failed: it is answered 500, not with a success
\* response, and no sync-history row reports it as a success.
C15_StoreFailureIsFatal ==
  \A p \in Procs :
    (inv[p].kind = "schema" /\ inv[p].pc = "done" /\ inv[p].storeFailed) =>
      /\ inv[p].statusCode = 500
      /\ ~inv[p].success
      /\ ~\E h \in syncHistory : h.connection_id = inv[p].connectionId /\ h.status = "success"

\* the column descriptors a run holds for table t of database d: those of the
\* table being analysed, or those already put into the metadata
ColumnsHeld(r, d, t) ==
  IF r.pc \in {"generate", "delay"} /\ r.dbs[r.di] = d /\ r.tables[r.ti] = t
    THEN {r.cols[i] : i \in 1..Len(r.cols)}
    ELSE UNION {UNION {{tb.columns[i] : i \in 1..Len(tb.columns)} :
                         tb \in {db.tables[k] : k \in {k \in 1..Len(db.tables) :
                                                         db.tables[k].name = t}}} :
                  db \in {r.metadata[n] : n \in {n \in 1..Len(r.metadata) :
                                                    r.metadata[n].name = d}}}

\* the metadata holds every database, table and column of the source
WholeSource(r) ==
  LET dbs == RemoteDatabases(r.conn.id)
  IN /\ Len(r.metadata) = Len(dbs)
     /\ \A n \in 1..Len(dbs) :
          LET ts == RemoteTables(r.conn.id, dbs[n])
          IN /\ r.metadata[n].name = dbs[n]
             /\ Len(r.metadata[n].tables) = Len(ts)
             /\ \A k \in 1..Len(ts) :
                  /\ r.metadata[n].tables[k].name = ts[k]
                  /\ Len(r.metadata[n].tables[k].columns)
                       = Len(RemoteColumns(r.conn.id, dbs[n], ts[k]))

\* C16: when the generative-text request for a column has failed or returned no
\* text, the column's definition is "Column <name> of type <type>"; the run
\* goes on: its job stays running until the extraction is over, the metadata
\* then holds every table and column of the source (no gateway call having
\* failed), and the error the run ends with is not that of the request.
C16_GenerationFailureDegrades ==
  \A p \in Procs :
    LET r == inv[p]
    IN (r.kind = "enhanced" /\ \E i \in 1..Len(r.genReqs) : r.genReqs[i].failed) =>
         /\ \A i \in 1..Len(r.genReqs) :
              LET q == r.genReqs[i]
              IN (q.failed /\ r.pc \in {"delay", "generate", "getTables",
                                          "getTableStructure", "callStore"}) =>
                   \A c \in ColumnsHeld(r, q.database, q.table) :
                     c.name = q.column =>
                       c.ai_definition = "Column " \o q.column \o " of type " \o q.type
         /\ (r.pc # "done" /\ r.jobId # 0) => \E j \in JobsOf(p) : j.status = "running"
         /\ (r.pc = "callStore" /\ r.failedAt = 0) => WholeSource(r)
         /\ r.pc = "done" => r.error = StoreCallError

\* the request for column id of c1 has failed; the extraction is over, column
\* id has the fallback string, column status its comment, the job is running
C16_Witness ==
  \E p \in Procs :
    LET r == inv[p]
    IN /\ r.kind = "enhanced" /\ r.pc = "callStore" /\ r.conn.id = "c1"
       /\ Len(r.genReqs) = 1 /\ r.genReqs[1].failed
       /\ Len(r.metadata) = 1 /\ Len(r.metadata[1].tables) = 1
       /\ LET cs == r.metadata[1].tables[1].columns
          IN /\ Len(cs) = 2
             /\ cs[1].ai_definition = FallbackDefinition(cs[1].name, cs[1].type)
             /\ cs[2].ai_definition = "order status"
       /\ \E j \in JobsOf(p) : j.status = "running"

\* C17: a run whose request carried aiAnalysisEnabled = false issues no
\* generative-text request, and every column without a comment that it holds
\* when the extraction is over has the fallback string as its definition.
C17_OptOutIssuesNoRequest ==
  \A p \in Procs :
    LET r == inv[p]
    IN (r.kind = "enhanced" /\ ~r.aiAnalysisEnabled) =>
         /\ Len(r.genReqs) = 0
         /\ r.pc = "callStore" =>
              \A n \in 1..Len(r.metadata) : \A k \in 1..Len(r.metadata[n].tables) :
                LET cs == r.metadata[n].tables[k].columns
                IN \A i \in 1..Len(cs) :
                     cs[i].comment = NULL =>
                       cs[i].ai_definition = FallbackDefinition(cs[i].name, cs[i].type)

\* C18: when a generative-text request of a run is outstanding, the delay has
\* elapsed after each earlier request of the run and no other remote call of
\* the run is outstanding; a request that has returned is followed by its
\* delay before anything else happens in the run.
C18_DelayBetweenRequests ==
  \A p \in Procs :
    LET r == inv[p]
    IN r.kind = "enhanced" =>
         /\ r.pc = "generate" => (r.delays = Len(r.genReqs) /\ r.pending = 1)
         /\ r.pc = "delay" => (r.delays + 1 = Len(r.genReqs) /\ r.pending = 0)
         /\ r.pc \notin {"generate", "delay"} => r.delays = Len(r.genReqs)

\* the request for column qty is outstanding, the one for column id of the
\* same table has returned and its delay has elapsed
C18_Witness ==
  \E p \in Procs :
    LET r == inv[p]
    IN /\ r.kind = "enhanced" /\ r.pc = "generate"
       /\ r.cols[r.ci].name = "qty"
       /\ Len(r.genReqs) >= 1
       /\ r.genReqs[Len(r.genReqs)].column = "id"
       /\ r.genReqs[Len(r.genReqs)].table = r.tables[r.ti]
       /\ r.delays = Len(r.genReqs)

\* the invocation waits for the answer to a request it has posted
Awaiting(r) == r.pc \in GatewayCalls \cup {"generate"} /\ Posts(r, r.pc)

\* C19: an invocation of the sync handler has at most one remote call
\* (gateway introspection or generative-text) outstanding: exactly one while
\* it waits for an answer, none at any other point.
C19_OneOutstandingCall ==
  \A p \in Procs :
    inv[p].kind = "enhanced" =>
      /\ inv[p].pending <= 1
      /\ inv[p].pending = IF Awaiting(inv[p]) THEN 1 ELSE 0

\* three gateway calls of the run have returned or failed and its
\* generative-text request is the one call outstanding
C19_Witness ==
  \E p \in Procs :
    /\ inv[p].kind = "enhanced" /\ inv[p].pc = "generate"
    /\ inv[p].calls = 3
    /\ inv[p].pending = 1

\* the Field row of column `name` of table t of database d of connection cid,
\* under its Object row, under its Schema row
FieldStored(cid, d, t, name) ==
  \E sc \in schemas : \E o \in objects : \E f \in fields :
    /\ sc.connection_id = cid /\ sc.name = d
    /\ o.schema_id = sc.id /\ o.name = t
    /\ f.object_id = o.id /\ f.name = name

\* C20: the terminal status update of a run's job comes after the upserts of
\* the run, which come after the annotation of their fields: once the job is
\* completed or failed, every field whose annotation the run has resolved
\* (after the describe call of its table returned) has its Field row, under
\* its Object row, under its Schema row.
C20_UpsertsBeforeTerminalUpdate ==
  \A p \in Procs :
    inv[p].kind = "enhanced" =>
      \A j \in JobsOf(p) :
        j.status \in {"completed", "failed"} =>
          \A i \in 1..Len(inv[p].genReqs) :
            LET q == inv[p].genReqs[i]
            IN FieldStored(inv[p].connRecId, q.database, q.table, q.column)

\* C21: a job in a terminal status has completed_at set and its stored counts
\* of processed databases, tables and columns are those of the metadata its
\* run extracted; a failed job carries the captured error message.
C21_TerminalJobRow ==
  \A p \in Procs :
    inv[p].kind = "enhanced" =>
      \A j \in JobsOf(p) :
        j.status \in {"completed", "failed"} =>
          /\ j.completed_at
          /\ j.processed_databases = inv[p].extracted.databases
          /\ j.processed_tables = inv[p].extracted.tables
          /\ j.processed_columns = inv[p].extracted.columns
          /\ j.status = "failed" => j.error_message # NULL

\* the invocations of the sync handler that have answered and had a job row
AnsweredRuns == {p \in Procs : inv[p].kind = "enhanced" /\ inv[p].pc = "done" /\ inv[p].jobId # 0}

SchemasUnder(cid) == {sc.name : sc \in {x \in schemas : x.connection_id = cid}}

ObjectsUnder(cid) ==
  {<<sc.name, o.name>> : <<sc, o>> \in
     {y \in schemas \X objects : y[1].connection_id = cid /\ y[2].schema_id = y[1].id}}

FieldsUnder(cid) ==
  {[schema |-> y[1].name, object |-> y[2].name, name |-> y[3].name,
    data_type |-> y[3].data_type, comment |-> y[3].comment,
    description |-> y[3].description, ai_description |-> y[3].ai_description,
    business_definition |-> y[3].business_definition] :
     y \in {z \in schemas \X objects \X fields :
              /\ z[1].connection_id = cid
              /\ z[2].schema_id = z[1].id
              /\ z[3].object_id = z[2].id}}

\* the same three sets as the source behind the connection alone determines
\* them, every remote call answering
SourceSchemas(c) ==
  {RemoteDatabases(c.id)[n] : n \in 1..Len(RemoteDatabases(c.id))}

SourceObjects(c) ==
  UNION {{<<d, RemoteTables(c.id, d)[k]>> : k \in 1..Len(RemoteTables(c.id, d))} :
           d \in SourceSchemas(c)}

SourceFields(c) ==
  UNION {LET raw == IF c.type \in StructureDialects
                      THEN RemoteColumns(c.id, dt[1], dt[2]) ELSE <<>>
         IN {LET col == MapColumn(raw[i])
                 def == IF ~geminiKey THEN NULL
                        ELSE IF NeedsGen(col)
                          THEN GenerationAnswer(CHOOSE t \in GenTexts : TRUE, col)
                          ELSE col.comment
             IN [schema |-> dt[1], object |-> dt[2], name |-> col.name,
                 data_type |-> col.type, comment |-> col.comment,
                 description |-> col.comment, ai_description |-> def,
                 business_definition |-> def] : i \in 1..Len(raw)} :
           dt \in SourceObjects(c)}

\* storeComprehensiveMetadata has run to its end for the connection and no run
\* for the connection has met a failure
SyncedClean(c) ==
  /\ \E p \in Procs : CleanRun(p) /\ inv[p].kind = "pipeline" /\ inv[p].connRecId = c.id
  /\ \A q \in Procs : inv[q].connRecId = c.id => ~inv[q].faulted

SourceHasColumn(cid, d, t, f) ==
  \E i \in 1..Len(RemoteColumns(cid, d, t)) :
    LET row == RemoteColumns(cid, d, t)[i]
    IN row[1] = f.name /\ row[2] = f.data_type /\ OrNull(row[5]) = f.comment

C25_SuccessMeansStored ==
  \A p \in Procs :
    (inv[p].kind = "schema" /\ inv[p].pc = "done" /\ inv[p].statusCode = 200) =>
      \A c \in connections :
        c.id = inv[p].connectionId =>
          \A i \in 1..Len(SyncRows(c)) :
            LET row == SyncRows(c)[i]
            IN FieldStored(c.id, row.database, row.table, row.column_name)

\* the schema-sync invocations for connection cid that got past the request
\* validation and have answered
SyncsAnswered(cid) ==
  {p \in Procs : inv[p].kind = "schema" /\ inv[p].pc = "done" /\ inv[p].connRecId = cid}

HistoryRows(cid, status) ==
  {h \in syncHistory : h.connection_id = cid /\ h.status = status}

\* C28 as stated: every schema-sync invocation past the request validation
\* has written exactly one sync-history row, with status success if and only
\* if it answered 200.
C28_OneHistoryRow ==
  \A c \in connections :
    /\ Cardinality(HistoryRows(c.id, "success"))
         = Cardinality({p \in SyncsAnswered(c.id) : inv[p].statusCode = 200})
    /\ Cardinality(HistoryRows(c.id, "failed"))
         = Cardinality({p \in SyncsAnswered(c.id) : inv[p].statusCode # 200})

\* C28 (amended): every schema-sync invocation past the request validation
\* whose sync-history insert the store accepted has written exactly one row,
\* with status success if and only if it answered 200 (it answers 500
\* otherwise); an invocation whose insert failed has written none.
C28_OneHistoryRowIfInserted ==
  /\ \A c \in connections :
       /\ Cardinality(HistoryRows(c.id, "success"))
            = Cardinality({p \in SyncsAnswered(c.id) :
                             inv[p].logged /\ inv[p].statusCode = 200})
       /\ Cardinality(HistoryRows(c.id, "failed"))
            = Cardinality({p \in SyncsAnswered(c.id) :
                             inv[p].logged /\ inv[p].statusCode = 500})
       /\ \A p \in SyncsAnswered(c.id) :
            /\ inv[p].statusCode \in {200, 500}
            /\ ~inv[p].logged => inv[p].faulted
  /\ \A h \in syncHistory :
       /\ h.status \in {"success", "failed"}
       /\ \E c \in connections : c.id = h.connection_id

\* two invocations for one connection have answered 200; the history insert
\* of one of them failed and the table holds the single row of the other
C28_Witness ==
  \E p, q \in Procs :
    /\ p # q
    /\ {p, q} \subseteq SyncsAnswered(inv[p].connRecId)
    /\ inv[p].statusCode = 200 /\ inv[p].logged
    /\ inv[q].statusCode = 200 /\ ~inv[q].logged
    /\ Cardinality(HistoryRows(inv[p].connRecId, "success")) = 1

\* C26: a run for a request that names a registered connectionId introspects
\* with the registered connection (type and connection_config), whatever
\* connection object the request body carries.
C26_UsesRegisteredConnection ==
  \A p \in Procs :
    LET r == inv[p]
    IN (r.kind = "enhanced" /\ r.connectionId # "new" /\ r.calls > 0 /\ r.pc # "done") =>
         \E c \in connections : c.id = r.connRecId /\ r.conn = c

\* C27: a save (connectionId 'new') that has answered with an error has left
\* no row of its own in the registry (so that a retry of the save cannot make
\* a second row for the data source).
C27_FailedSaveLeavesNoRow ==
  \A p \in Procs :
    (inv[p].kind = "enhanced" /\ inv[p].connectionId = "new"
       /\ inv[p].pc = "done" /\ inv[p].statusCode # 200) =>
      ~\E c \in connections : c.id = inv[p].connRecId

\* the status the handler of the unmutated code answers an invalid request with
Rejection(r) ==
  IF r.method # "POST" THEN 405
  ELSE IF r.conn = Idle.conn THEN 400
  ELSE 404

\* the request of the invocation is a GET, or a POST with a JSON body that
\* lacks the connection or names a connectionId that is neither 'new' nor
\* registered
MustReject(r) ==
  /\ r.kind = "enhanced"
  /\ \/ r.method # "POST"
     \/ /\ r.body = "json"
        /\ \/ r.conn = Idle.conn
           \/ r.connectionId # "new" /\ ~\E c \in connections : c.id = r.connectionId

\* C29: the step that takes up an enhanced-sync request which the validation
\* must reject (405, 400, 404) answers it with that status, has issued no
\* gateway or generative-text call and leaves the connection, job, schema,
\* object and field tables as they were.
C29_RejectedRequestNoEffect ==
  [][\A p \in Procs :
       (inv[p].pc = "recv" /\ MustReject(inv[p]) /\ inv'[p] # inv[p]) =>
         /\ inv'[p].pc = "done"
         /\ inv'[p].statusCode = Rejection(inv[p])
         /\ inv'[p].calls = 0 /\ inv'[p].pending = 0 /\ inv'[p].genReqs = <<>>
         /\ inv'[p].jobId = 0
         /\ UNCHANGED <<connections, jobs, schemas, objects, fields>>]_vars

\* a request with an unregistered connectionId has been rejected with 404
\* after a save, still running, had registered a connection and a job; the
\* tables hold what the save wrote
C29_Witness ==
  /\ \E p, q \in Procs :
       /\ p > q
       /\ inv[p].kind = "enhanced" /\ inv[p].pc = "done" /\ inv[p].statusCode = 404
       /\ inv[p].calls = 0 /\ inv[p].jobId = 0
       /\ inv[q].kind = "enhanced" /\ inv[q].pc # "done" /\ inv[q].jobId # 0
       /\ inv[q].connectionId = "new"
  /\ Cardinality(connections) = 2
  /\ Cardinality(jobs) = 1

\* after the greeting the messages are pairs of a user message and a reply,
\* the reply of the last pair missing exactly while the request is pending
ChatShape ==
  /\ chat.messages[1] = "greeting"
  /\ \A i \in 2..Len(chat.messages) :
       chat.messages[i] \in (IF i % 2 = 0 THEN {"user"} ELSE Replies)
  /\ Len(chat.messages) = IF chat.pc \in {"fetch", "json"} THEN 2 * chat.sends
                          ELSE 2 * chat.sends + 1
  /\ chat.isLoading = (chat.pc # "idle")

\* C30: every accepted send appends one user message, followed by exactly one
\* reply (result, error or connection-error); a send is accepted only while
\* isLoading is false and sets it to true; isLoading always returns to false.
C30_OneReplyPerSend ==
  /\ []ChatShape
  /\ [][chat'.sends # chat.sends =>
          /\ ~chat.isLoading /\ chat'.isLoading
          /\ chat'.sends = chat.sends + 1
          /\ chat'.messages = Append(chat.messages, "user")]_vars
  /\ [][chat'.messages # chat.messages =>
          \E m \in Replies \cup {"user"} : chat'.messages = Append(chat.messages, m)]_vars
  /\ (chat.isLoading ~> ~chat.isLoading)

\* two sends have been answered, one with a result and one from the catch
\* block, and the page is idle again
C30_Witness ==
  /\ chat.sends = 2 /\ ~chat.isLoading
  /\ chat.messages = <<"greeting", "user", "result", "user", "connection-error">>
====
